---------------------------- MODULE Spec2Model ----------------------------
(***************************************************************************)
(* Model of ntfy-cron.py: a sequential script that samples block-device    *)
(* capacity and directory sizes, composes a report and pushes it with curl *)
(* on the configured weekdays.                                             *)
(*                                                                         *)
(* Representation.                                                         *)
(*   - A Python str that is parsed as a number is a sequence of one-char   *)
(*     strings, e.g. <<"1","0","0">>; strip(), isdigit() and int() are     *)
(*     computed on it.                                                     *)
(*   - Output that the script only splits is kept as the sequence of its   *)
(*     lines (splitlines) or of its whitespace-delimited fields (split).   *)
(*   - A value that may be None is <<>> (None) or <<v>>.                   *)
(*   - A call that may raise returns [ok |-> BOOLEAN, val |-> ...].        *)
(*   - A usage percentage used / size * 100 is the exact fraction          *)
(*     [n |-> used * 100, d |-> size], d > 0.                              *)
(*   - The outcome of spawning a process is [raised, stdout]: raised is    *)
(*     subprocess.run throwing (binary missing), stdout the captured text. *)
(***************************************************************************)
EXTENDS Integers, Sequences, FiniteSets, TLC

VARIABLES
    pc,               \* position of the script
    ALERT_DAYS,       \* configuration, line 17
    today,            \* environment: datetime.today().weekday()
    curlInstalled,    \* environment: shutil.which("curl") is not None
    ip,               \* line 109
    worst_usage_percent,
    first_line_emoji,
    report,           \* list of report lines
    loopDisks,        \* devices the running for-loop still has to visit
    scan1,            \* history: what the worst-usage scan observed
    scan2,            \* history: what the summary loop observed
    dirObs,           \* history: what get_dir_sizes observed
    attempts,         \* number of curl invocations
    stdout,           \* what the script printed
    fault,            \* the exception that ended the run, "" if none
    arg,              \* unit specifications: the input of the call
    ret               \* unit specifications: its result

vars == <<pc, ALERT_DAYS, today, curlInstalled, ip, worst_usage_percent,
          first_line_emoji, report, loopDisks, scan1, scan2, dirObs,
          attempts, stdout, fault, arg, ret>>

-----------------------------------------------------------------------------
(* Bounds *)

MaxDisks == 2      \* lines of `lsblk -dn` output
MaxParts == 2      \* lines of `lsblk -ln` output besides the device's own
MaxStrLen == 2     \* characters of a numeric output in the unit specification
MaxPct == 120      \* integer percentages examined

(* Program constants *)

OK_LEVEL == 70
WARNING_LEVEL == OK_LEVEL - 10
DIRS_TO_CHECK == <<"/etc", "/var/log", "/home">>
DefaultAlertDays == {0, 1, 2, 3, 4, 5, 6, 7}
SectorBytes == 512

OK == "OK"
Warning == "Warning"
Critical == "Critical"

None == <<>>
Some(v) == <<v>>

-----------------------------------------------------------------------------
(* Python string primitives *)

DigitChars == <<"0", "1", "2", "3", "4", "5", "6", "7", "8", "9">>
DigitSet == {DigitChars[i] : i \in 1..10}
DigitVal(c) == (CHOOSE i \in 1..10 : DigitChars[i] = c) - 1
WhitespaceChars == {" ", "\n"}

RECURSIVE LStrip(_)
LStrip(s) ==
    IF s # <<>> /\ Head(s) \in WhitespaceChars THEN LStrip(Tail(s)) ELSE s

RECURSIVE RStrip(_)
RStrip(s) ==
    IF s # <<>> /\ s[Len(s)] \in WhitespaceChars
    THEN RStrip(SubSeq(s, 1, Len(s) - 1))
    ELSE s

\* str.strip()
strip(s) == RStrip(LStrip(s))

\* str.isdigit(): non-empty and every character a digit
isdigit(s) == s # <<>> /\ \A i \in 1..Len(s) : s[i] \in DigitSet

RECURSIVE DigitsValue(_)
DigitsValue(s) ==
    IF s = <<>> THEN 0
    ELSE DigitsValue(SubSeq(s, 1, Len(s) - 1)) * 10 + DigitVal(s[Len(s)])

\* int(str): surrounding whitespace ignored, optional sign, decimal digits;
\* anything else raises ValueError (ok = FALSE).
int(s) ==
    LET t == strip(s)
        signed == t # <<>> /\ Head(t) \in {"-", "+"}
        body == IF signed THEN Tail(t) ELSE t
    IN  IF isdigit(body)
        THEN [ok |-> TRUE,
              val |-> IF signed /\ Head(t) = "-" THEN 0 - DigitsValue(body)
                      ELSE DigitsValue(body)]
        ELSE [ok |-> FALSE, val |-> 0]

-----------------------------------------------------------------------------
(* Process outcomes *)

Raised == [raised |-> TRUE, stdout |-> <<>>]
Out(text) == [raised |-> FALSE, stdout |-> text]

\* run(cmd), lines 19-24, for output parsed character by character
run(o) == IF o.raised THEN <<>> ELSE strip(o.stdout)

RECURSIVE DropLeadingBlank(_, _)
DropLeadingBlank(lines, blank) ==
    IF lines # <<>> /\ Head(lines) = blank
    THEN DropLeadingBlank(Tail(lines), blank) ELSE lines

RECURSIVE DropTrailingBlank(_, _)
DropTrailingBlank(lines, blank) ==
    IF lines # <<>> /\ lines[Len(lines)] = blank
    THEN DropTrailingBlank(SubSeq(lines, 1, Len(lines) - 1), blank) ELSE lines

\* run(cmd).splitlines(), for output kept as lines: strip() removes the
\* blank lines at both ends.
runLines(o, blank) ==
    IF o.raised THEN <<>>
    ELSE DropTrailingBlank(DropLeadingBlank(o.stdout, blank), blank)

-----------------------------------------------------------------------------
(* get_disks, lines 26-29 *)

BootNames == {"mmcblk0boot0"}     \* names with "boot" in them

\* "boot" not in name
NoBootIn(name) == name \notin BootNames

RECURSIVE DiskNamesOf(_)
DiskNamesOf(lines) ==
    IF lines = <<>> THEN <<>>
    ELSE LET fields == Head(lines)
         IN  IF fields[2] = "disk" /\ NoBootIn(fields[1])
             THEN <<fields[1]>> \o DiskNamesOf(Tail(lines))
             ELSE DiskNamesOf(Tail(lines))

\* Each line is the list line.split(); line.split()[1] raises IndexError on
\* a line of fewer than two fields.
get_disks(o) ==
    LET lines == runLines(o, <<>>)
    IN  IF \E i \in 1..Len(lines) : Len(lines[i]) < 2
        THEN [ok |-> FALSE, val |-> <<>>]
        ELSE [ok |-> TRUE, val |-> DiskNamesOf(lines)]

-----------------------------------------------------------------------------
(* get_disk_size_bytes, lines 31-42 *)
\* env.size: outcome of `lsblk -bn -o SIZE /dev/<dev>`
\* env.sys : [readable, text] of /sys/block/<dev>/size

\* Mutant: the sector count returned as if it were bytes
get_disk_size_bytes_sectors(dev, env) ==
    LET size_str == run(env.size)
    IN  IF isdigit(size_str) THEN Some(int(size_str).val)
        ELSE IF ~env.sys.readable THEN None
        ELSE LET sectors == int(strip(env.sys.text))
             IN  IF sectors.ok THEN Some(sectors.val) ELSE None

get_disk_size_bytes(dev, env) ==
    LET size_str == run(env.size)
    IN  IF isdigit(size_str) THEN Some(int(size_str).val)
        ELSE IF ~env.sys.readable THEN None
        ELSE LET sectors == int(strip(env.sys.text))
             IN  IF sectors.ok THEN Some(sectors.val * SectorBytes) ELSE None

-----------------------------------------------------------------------------
(* get_used_bytes, lines 44-57 *)
\* env.parts: outcome of `lsblk -ln -o NAME /dev/<dev>`, lines
\* env.mp[p]: outcome of `lsblk -n -o MOUNTPOINT /dev/<p>`, lines
\* env.df[m]: outcome of `df --output=used -B1 <m>`, lines of characters

\* One iteration's contribution: int(df_out.splitlines()[1]), or nothing
\* when the partition is the device itself, is unmounted, or the second line
\* is missing (IndexError) or is no integer (ValueError).
PartUsed(dev, env, part) ==
    IF part = dev THEN 0
    ELSE LET mp == runLines(env.mp[part], "")
         IN  IF mp # <<>> /\ mp[1] # ""
             THEN LET df_out == runLines(env.df[mp[1]], <<>>)
                  IN  IF Len(df_out) < 2 THEN 0
                      ELSE LET n == int(df_out[2])
                           IN  IF n.ok THEN n.val ELSE 0
             ELSE 0

RECURSIVE UsedLoop(_, _, _, _)
UsedLoop(dev, env, partitions, used) ==
    IF partitions = <<>> THEN used
    ELSE UsedLoop(dev, env, Tail(partitions),
                  used + PartUsed(dev, env, Head(partitions)))

\* Mutant: a partition whose df answer does not parse ends the loop
RECURSIVE UsedLoopStop(_, _, _, _)
UsedLoopStop(dev, env, partitions, used) ==
    IF partitions = <<>> THEN used
    ELSE LET part == Head(partitions)
             mp == runLines(env.mp[part], "")
             df_out == runLines(env.df[mp[1]], <<>>)
         IN  IF part # dev /\ mp # <<>> /\ mp[1] # ""
                /\ (Len(df_out) < 2 \/ ~int(df_out[2]).ok)
             THEN used
             ELSE UsedLoopStop(dev, env, Tail(partitions),
                               used + PartUsed(dev, env, part))

get_used_bytes_stop(dev, env) ==
    UsedLoopStop(dev, env, runLines(env.parts, ""), 0)

get_used_bytes(dev, env) ==
    UsedLoop(dev, env, runLines(env.parts, ""), 0)

-----------------------------------------------------------------------------
(* get_dir_sizes, lines 66-78 *)
\* env.isdir[d]: os.path.isdir(d)
\* env.du[d]   : outcome of `du -sh <d>`, stdout as its fields (split())

DirLine(d, text) == [kind |-> "dir", path |-> d, text |-> text]

RECURSIVE DirLoop(_, _, _)
DirLoop(dirs, env, results) ==
    IF dirs = <<>> THEN [ok |-> TRUE, val |-> results]
    ELSE LET d == Head(dirs)
         IN  IF env.isdir[d]
             THEN IF env.du[d].raised
                  THEN [ok |-> FALSE, val |-> <<>>]   \* not inside a try
                  ELSE LET du_output == env.du[d].stdout
                       IN  IF du_output # <<>>
                           THEN DirLoop(Tail(dirs), env,
                                   Append(results, DirLine(d, du_output[1])))
                           ELSE DirLoop(Tail(dirs), env,
                                   Append(results, DirLine(d, "Error getting size")))
             ELSE DirLoop(Tail(dirs), env, Append(results, DirLine(d, "Not found")))

get_dir_sizes(dirs, env) == DirLoop(dirs, env, <<>>)

-----------------------------------------------------------------------------
(* check_emoji, lines 87-93 *)

Percent(used, size) == [n |-> used * 100, d |-> size]
WholePercent(p) == [n |-> p, d |-> 1]
\* percent <= level
PercentLeq(percent, level) == percent.n <= level * percent.d
\* Mutant: the comparison of the scan inverted
PercentLt(a, b) == a.n * b.d < b.n * a.d

\* a > b
PercentGt(a, b) == a.n * b.d > b.n * a.d

\* Mutant: strict comparisons
check_emoji_strict(percent) ==
    IF percent.n < OK_LEVEL * percent.d THEN OK
    ELSE IF percent.n < WARNING_LEVEL * percent.d THEN Warning
    ELSE Critical

\* Mutant: the lower threshold tested first
check_emoji_ascending(percent) ==
    IF PercentLeq(percent, WARNING_LEVEL) THEN OK
    ELSE IF PercentLeq(percent, OK_LEVEL) THEN Warning
    ELSE Critical

check_emoji(percent) ==
    IF PercentLeq(percent, OK_LEVEL) THEN OK
    ELSE IF PercentLeq(percent, WARNING_LEVEL) THEN Warning
    ELSE Critical

(* should_alert_today, lines 95-97 *)
should_alert_today(day, days) == day \in days

(* get_hostname_and_ip, lines 99-106 *)
\* o: outcome of `hostname -I`, stdout as its fields (split())
HostName == "host"

get_hostname_and_ip(o) ==
    LET fields == IF o.raised THEN <<>> ELSE o.stdout
    IN  IF fields = <<>> THEN [ok |-> FALSE, val |-> <<>>]   \* IndexError
        ELSE [ok |-> TRUE, val |-> <<HostName, fields[1]>>]

-----------------------------------------------------------------------------
(* What the commands may answer during a run *)

DiskNames == {"sda", "sdb"}
\* partition names, whatever the device
PartNamePool == <<"part1", "part2", "part3", "part4">>
MountPool == <<"/", "/data", "/srv", "/opt">>
PartNames == {PartNamePool[k] : k \in 1..MaxParts}
MountPoints == {MountPool[k] : k \in 1..MaxParts}

SeqsUpTo(S, n) == UNION {[1..k -> S] : k \in 0..n}

\* `hostname -I`
HostnameOutcomes ==
    {Raised, Out(<<>>), Out(<<"192.0.2.7">>), Out(<<"192.0.2.7", "2001:db8::7">>)}

\* `lsblk -dn -o NAME,TYPE`: the last choice is a line without its TYPE
LsblkLines ==
    {<<d, "disk">> : d \in DiskNames}
        \cup {<<"sr0", "rom">>, <<"mmcblk0boot0", "disk">>, <<"sda">>}
LsblkOutcomes == {Raised} \cup {Out(l) : l \in SeqsUpTo(LsblkLines, MaxDisks)}

Unreadable == [readable |-> FALSE, text |-> <<>>]
File(text) == [readable |-> TRUE, text |-> text]

DfHeader == <<"U", "s", "e", "d">>
NoDf == [m \in MountPoints |-> Out(<<>>)]
Unmounted == [p \in PartNames \cup DiskNames |-> Out(<<>>)]

\* What one loop iteration may meet: the size query (size), the sector file
\* (sys), the partition list (parts), the mount points (mp), the df answers
RunDiskEnvs(dev) ==
    { \* no size at all, and lsblk cannot list the partitions
      [size |-> Out(<<>>), sys |-> Unreadable,
       parts |-> Raised, mp |-> Unmounted, df |-> NoDf],
      \* size query fails, sector file is no number; 75 used
      [size |-> Raised, sys |-> File(<<"x">>),
       parts |-> Out(<<dev, "part1">>),
       mp |-> [Unmounted EXCEPT !["part1"] = Out(<<"/">>)],
       df |-> [NoDf EXCEPT !["/"] = Out(<<DfHeader, <<"7", "5">>>>)]],
      \* a device of size 0; 65 used
      [size |-> Out(<<"0", "\n">>), sys |-> File(<<"0", "\n">>),
       parts |-> Out(<<dev, "part1">>),
       mp |-> [Unmounted EXCEPT !["part1"] = Out(<<"/">>)],
       df |-> [NoDf EXCEPT !["/"] = Out(<<DfHeader, <<"6", "5">>>>)]],
      \* size 100; 65 used, second partition not mounted
      [size |-> Out(<<"1", "0", "0", "\n">>), sys |-> File(<<"1", "\n">>),
       parts |-> Out(<<dev, "part1", "part2">>),
       mp |-> [Unmounted EXCEPT !["part1"] = Out(<<"/">>)],
       df |-> [NoDf EXCEPT !["/"] = Out(<<DfHeader, <<" ", "6", "5">>>>)]],
      \* size 100; first partition's df answer has no second line, 75 used
      [size |-> Out(<<"1", "0", "0", "\n">>), sys |-> Unreadable,
       parts |-> Out(<<dev, "part1", "part2">>),
       mp |-> [Unmounted EXCEPT !["part1"] = Out(<<"/">>),
                                 !["part2"] = Out(<<"/data">>)],
       df |-> [NoDf EXCEPT !["/"] = Out(<<DfHeader>>),
                           !["/data"] = Out(<<DfHeader, <<"7", "5">>>>)]] }

DirSet == {DIRS_TO_CHECK[i] : i \in 1..Len(DIRS_TO_CHECK)}
DuOutputs == {Raised, Out(<<>>), Out(<<"4.0K", "dir">>)}

\* os.path.isdir and `du -sh`, as one run meets them: du is there or is not
DirEnv(D, o) == [isdir |-> [d \in DirSet |-> d \in D], du |-> [d \in DirSet |-> o]]
RunDirEnvs ==
    {DirEnv({}, Raised)} \cup {DirEnv({"/etc", "/home"}, o) : o \in DuOutputs}

\* datetime.weekday() is 0 (Monday) .. 6 (Sunday)
Weekdays == 0..6
AlertDaysChoices == {DefaultAlertDays, {0, 2, 4}}

-----------------------------------------------------------------------------
(* The script, lines 108-147 *)

TitleLine(text) == [kind |-> "title", text |-> text]
HeaderLine(emoji, host, addr) ==
    [kind |-> "header", emoji |-> emoji, host |-> host, ip |-> addr]
UsageLine(emoji, disk, used, size) ==
    [kind |-> "usage", emoji |-> emoji, disk |-> disk, used |-> used,
     size |-> size, percent |-> Percent(used, size)]
UnableLine(disk) == [kind |-> "unable", disk |-> disk]

\* `if size and size > 0`
Usable(size) == size # None /\ size[1] # 0 /\ size[1] > 0

Init ==
    /\ pc = "hostinfo"
    /\ ALERT_DAYS \in AlertDaysChoices
    /\ today \in Weekdays
    /\ curlInstalled \in BOOLEAN
    /\ ip = None
    /\ worst_usage_percent = WholePercent(0)
    /\ first_line_emoji = None
    /\ report = <<>>
    /\ loopDisks = <<>>
    /\ scan1 = <<>>
    /\ scan2 = <<>>
    /\ dirObs = None
    /\ attempts = 0
    /\ stdout = <<>>
    /\ fault = ""
    /\ arg = None
    /\ ret = None

Crash(what) ==
    /\ pc' = "crashed"
    /\ fault' = what

\* line 109
GetHostInfo ==
    /\ pc = "hostinfo"
    /\ \E o \in HostnameOutcomes :
        LET r == get_hostname_and_ip(o)
        IN  IF r.ok
            THEN /\ ip' = Some(r.val[2])
                 /\ pc' = "scan_disks"
                 /\ fault' = fault
            ELSE /\ Crash("IndexError")
                 /\ ip' = ip
    /\ UNCHANGED <<ALERT_DAYS, today, curlInstalled, worst_usage_percent,
                   first_line_emoji, report, loopDisks, scan1, scan2, dirObs,
                   attempts, stdout, arg, ret>>

\* line 113, the call of get_disks()
ScanEnumerate ==
    /\ pc = "scan_disks"
    /\ \E o \in LsblkOutcomes :
        LET r == get_disks(o)
        IN  IF r.ok
            THEN /\ loopDisks' = r.val
                 /\ pc' = "scan"
                 /\ fault' = fault
            ELSE /\ Crash("IndexError")
                 /\ loopDisks' = loopDisks
    /\ UNCHANGED <<ALERT_DAYS, today, curlInstalled, ip, worst_usage_percent,
                   first_line_emoji, report, scan1, scan2, dirObs, attempts,
                   stdout, arg, ret>>

\* lines 113-119, one iteration
ScanDisk ==
    /\ pc = "scan"
    /\ loopDisks # <<>>
    /\ LET disk == Head(loopDisks)
       IN  \E env \in RunDiskEnvs(disk) :
            LET size == get_disk_size_bytes(disk, env)
                used == get_used_bytes(disk, env)
            IN  /\ worst_usage_percent' =
                     IF Usable(size)
                        /\ PercentGt(Percent(used, size[1]), worst_usage_percent)
                     THEN Percent(used, size[1])
                     ELSE worst_usage_percent
                /\ scan1' = Append(scan1, [size |-> size, used |-> used])
    /\ loopDisks' = Tail(loopDisks)
    /\ UNCHANGED <<pc, ALERT_DAYS, today, curlInstalled, ip, first_line_emoji,
                   report, scan2, dirObs, attempts, stdout, fault, arg, ret>>

\* lines 122-128
ComposeHeader ==
    /\ pc = "scan"
    /\ loopDisks = <<>>
    /\ first_line_emoji' = Some(check_emoji(worst_usage_percent))
    /\ report' = <<HeaderLine(check_emoji(worst_usage_percent), HostName, ip[1]),
                   TitleLine("Disk Usage Summary")>>
    /\ pc' = "summary_disks"
    /\ UNCHANGED <<ALERT_DAYS, today, curlInstalled, ip, worst_usage_percent,
                   loopDisks, scan1, scan2, dirObs, attempts, stdout, fault,
                   arg, ret>>

\* line 129, the call of get_disks(); the scan's observations are history
\* no later step depends on and are dropped here
SummaryEnumerate ==
    /\ pc = "summary_disks"
    /\ \E o \in LsblkOutcomes :
        LET r == get_disks(o)
        IN  IF r.ok
            THEN /\ loopDisks' = r.val
                 /\ pc' = "summary"
                 /\ fault' = fault
            ELSE /\ Crash("IndexError")
                 /\ loopDisks' = loopDisks
    /\ scan1' = <<>>
    /\ UNCHANGED <<ALERT_DAYS, today, curlInstalled, ip, worst_usage_percent,
                   first_line_emoji, report, scan2, dirObs, attempts, stdout,
                   arg, ret>>

\* Mutant: a device without a size is left out of the disk section
SummaryDisk_skip ==
    /\ pc = "summary"
    /\ loopDisks # <<>>
    /\ LET disk == Head(loopDisks)
       IN  \E env \in RunDiskEnvs(disk) :
            LET size == get_disk_size_bytes(disk, env)
                used == get_used_bytes(disk, env)
            IN  /\ report' =
                     IF Usable(size)
                     THEN Append(report,
                            UsageLine(check_emoji(Percent(used, size[1])),
                                      disk, used, size[1]))
                     ELSE report
                /\ scan2' = Append(scan2, [disk |-> disk, size |-> size])
    /\ loopDisks' = Tail(loopDisks)
    /\ UNCHANGED <<pc, ALERT_DAYS, today, curlInstalled, ip,
                   worst_usage_percent, first_line_emoji, scan1, dirObs,
                   attempts, stdout, fault, arg, ret>>

\* lines 129-139, one iteration
SummaryDisk ==
    /\ pc = "summary"
    /\ loopDisks # <<>>
    /\ LET disk == Head(loopDisks)
       IN  \E env \in RunDiskEnvs(disk) :
            LET size == get_disk_size_bytes(disk, env)
                used == get_used_bytes(disk, env)
            IN  /\ report' =
                     IF Usable(size)
                     THEN Append(report,
                            UsageLine(check_emoji(Percent(used, size[1])),
                                      disk, used, size[1]))
                     ELSE Append(report, UnableLine(disk))
                /\ scan2' = Append(scan2, [disk |-> disk, size |-> size])
    /\ loopDisks' = Tail(loopDisks)
    /\ UNCHANGED <<pc, ALERT_DAYS, today, curlInstalled, ip,
                   worst_usage_percent, first_line_emoji, scan1, dirObs,
                   attempts, stdout, fault, arg, ret>>

\* lines 142-143
DirectorySizes ==
    /\ pc = "summary"
    /\ loopDisks = <<>>
    /\ \E env \in RunDirEnvs :
        LET r == get_dir_sizes(DIRS_TO_CHECK, env)
        IN  /\ dirObs' = Some(env)
            /\ IF r.ok
               THEN /\ report' = (report \o <<TitleLine("Directory Sizes")>>) \o r.val
                    /\ pc' = "gate"
                    /\ fault' = fault
               ELSE /\ report' = Append(report, TitleLine("Directory Sizes"))
                    /\ Crash("FileNotFoundError")
    /\ UNCHANGED <<ALERT_DAYS, today, curlInstalled, ip, worst_usage_percent,
                   first_line_emoji, loopDisks, scan1, scan2, attempts, stdout,
                   arg, ret>>

\* line 146
AlertGate ==
    /\ pc = "gate"
    /\ pc' = IF should_alert_today(today, ALERT_DAYS) THEN "send" ELSE "done"
    /\ UNCHANGED <<ALERT_DAYS, today, curlInstalled, ip, worst_usage_percent,
                   first_line_emoji, report, loopDisks, scan1, scan2, dirObs,
                   attempts, stdout, fault, arg, ret>>

\* "\n".join(report)
Message(lines) == [joined |-> lines]

\* line 147 and send_ntfy, lines 80-85
SendNtfy ==
    /\ pc = "send"
    /\ IF ~curlInstalled
       THEN /\ stdout' = stdout \o <<"curl not installed. Cannot send to ntfy.",
                                      Message(report)>>
            /\ attempts' = attempts
       ELSE /\ attempts' = attempts + 1
            /\ stdout' = stdout
    /\ pc' = "done"
    /\ UNCHANGED <<ALERT_DAYS, today, curlInstalled, ip, worst_usage_percent,
                   first_line_emoji, report, loopDisks, scan1, scan2, dirObs,
                   fault, arg, ret>>

Next ==
    \/ GetHostInfo
    \/ ScanEnumerate
    \/ ScanDisk
    \/ ComposeHeader
    \/ SummaryEnumerate
    \/ SummaryDisk
    \/ DirectorySizes
    \/ AlertGate
    \/ SendNtfy

Spec == Init /\ [][Next]_vars

-----------------------------------------------------------------------------
(* Unit specifications: one call of a function on every input of a bounded *)
(* set.  The script's own variables stay as constructed.                   *)

Idle ==
    /\ ALERT_DAYS = DefaultAlertDays
    /\ today = 0
    /\ curlInstalled = TRUE
    /\ ip = None
    /\ worst_usage_percent = WholePercent(0)
    /\ first_line_emoji = None
    /\ report = <<>>
    /\ loopDisks = <<>>
    /\ scan1 = <<>>
    /\ scan2 = <<>>
    /\ dirObs = None
    /\ attempts = 0
    /\ stdout = <<>>
    /\ fault = ""

IdleVars == <<ALERT_DAYS, today, curlInstalled, ip, worst_usage_percent,
              first_line_emoji, report, loopDisks, scan1, scan2, dirObs,
              attempts, stdout, fault>>

Dev == "sda"

(* get_disk_size_bytes *)

Alphabet == {"0", "1", "-", "+", " ", "\n", "x"}
Texts == SeqsUpTo(Alphabet, MaxStrLen)
SizeAnswers == {Raised} \cup {Out(t) : t \in Texts}
SectorFiles == {Unreadable} \cup {File(t) : t \in Texts}

\* arg: the answer the size query will give; the sector file is drawn when
\* the call gets to it
InitSize ==
    /\ pc = "call_size"
    /\ arg \in {Some([size |-> o]) : o \in SizeAnswers}
    /\ ret = None
    /\ Idle

CallSize ==
    /\ pc = "call_size"
    /\ \E f \in SectorFiles :
        LET env == [size |-> arg[1].size, sys |-> f]
        IN  /\ arg' = Some(env)
            /\ ret' = Some(get_disk_size_bytes(Dev, env))
    /\ pc' = "returned_size"
    /\ UNCHANGED IdleVars

NextSize == CallSize

SpecSize == InitSize /\ [][NextSize]_vars

(* get_used_bytes *)

ListedNames == {Dev} \cup PartNames
MountOf(p) == MountPool[CHOOSE k \in 1..MaxParts : PartNamePool[k] = p]
DfOutcomes ==
    { Raised,
      Out(<<DfHeader>>),
      Out(<<DfHeader, <<"6", "5">>>>),
      Out(<<DfHeader, <<"7">>, <<"1">>>>),
      Out(<<DfHeader, <<"x">>>>) }
PartLists ==
    {Raised} \cup {Out(n) : n \in SeqsUpTo(ListedNames, MaxParts + 1)}

\* arg: the partition list lsblk will print; the mount points and the df
\* answers are drawn when the call gets to them
InitUsed ==
    /\ pc = "call_used"
    /\ arg \in {Some([parts |-> l]) : l \in PartLists}
    /\ ret = None
    /\ Idle

CallUsed ==
    /\ pc = "call_used"
    /\ \E M \in SUBSET PartNames, f \in [MountPoints -> DfOutcomes] :
        LET env == [parts |-> arg[1].parts,
                    mp |-> [p \in ListedNames |->
                              IF p \in M THEN Out(<<MountOf(p)>>) ELSE Out(<<>>)],
                    df |-> f]
        IN  /\ arg' = Some(env)
            /\ ret' = Some(get_used_bytes(Dev, env))
    /\ pc' = "returned_used"
    /\ UNCHANGED IdleVars

NextUsed == CallUsed

SpecUsed == InitUsed /\ [][NextUsed]_vars

-----------------------------------------------------------------------------
(* Properties *)

Severity(emoji) == IF emoji = OK THEN 0 ELSE IF emoji = Warning THEN 1 ELSE 2
Indices(lines, kind) == {i \in 1..Len(lines) : lines[i].kind = kind}
Terminated == pc \in {"done", "crashed"}

\* a >= b as fractions with positive denominators
AtLeast(a, b) == a.n * b.d >= b.n * a.d
SameValue(a, b) == a.n * b.d = b.n * a.d

\* The three-tier rule as the specification words it
Tier(percent) ==
    IF percent.n <= OK_LEVEL * percent.d THEN OK
    ELSE IF percent.n <= (OK_LEVEL - 10) * percent.d THEN Warning
    ELSE Critical

\* The usage percentages of the scanned devices that yielded a capacity a
\* percentage can be computed from
ScanPercents ==
    {[n |-> scan1[i].used * 100, d |-> scan1[i].size[1]] :
        i \in {j \in 1..Len(scan1) : scan1[j].size # None /\ scan1[j].size[1] > 0}}
WorstOfScan ==
    IF ScanPercents = {} THEN WholePercent(0)
    ELSE CHOOSE p \in ScanPercents : \A q \in ScanPercents : AtLeast(p, q)

\* C1: a run never ends early on an unhandled fault: whatever the commands
\* answer, it is never in the crashed state (it goes on to the schedule gate
\* with header, disk section and directory section composed).
C1_NoUnhandledFault == pc # "crashed"

\* C2: once the header is composed, its severity marker is the
\* classification of the largest usage percentage the scan observed among
\* devices with a capacity, and of 0 when there is none.
C2_HeaderIsWorst ==
    pc = "summary_disks" =>
        /\ report[1].kind = "header"
        /\ report[1].emoji = Tier(WorstOfScan)
        /\ first_line_emoji = Some(report[1].emoji)
        /\ (ScanPercents = {} => report[1].emoji = OK)

C2_Witness ==
    /\ pc = "summary_disks"
    /\ Len(scan1) = 2
    /\ scan1[1].size = Some(100) /\ scan1[1].used = 75
    /\ scan1[2].size = Some(100) /\ scan1[2].used = 65
    /\ report[1].emoji = Critical

\* C3: when the run has ended, curl was invoked once if today is in
\* ALERT_DAYS and curl is installed and never otherwise, never more than
\* once, and without curl on an alert day the report text was printed.
C3_DeliveryAttempts ==
    Terminated =>
        /\ attempts = IF today \in ALERT_DAYS /\ curlInstalled THEN 1 ELSE 0
        /\ attempts <= 1
        /\ (today \in ALERT_DAYS /\ ~curlInstalled =>
                Len(stdout) = 2 /\ stdout[2] = Message(report))

\* C4: every device of the summary loop whose capacity is None has the
\* "Unable to get size" line at its place in the disk section, and after the
\* scan the worst usage is the largest percentage among the other devices,
\* 0 if there are none.
C4_UndeterminedCapacity ==
    /\ \A i \in 1..Len(scan2) :
        scan2[i].size = None =>
            /\ Len(report) >= 2 + i
            /\ report[2 + i] = UnableLine(scan2[i].disk)
    /\ pc = "summary_disks" => SameValue(worst_usage_percent, WorstOfScan)

C4_Witness ==
    /\ pc = "gate"
    /\ Len(scan2) = 2
    /\ scan2[1].size = None
    /\ report[3].kind = "unable"
    /\ report[4].kind = "usage" /\ report[4].emoji = Critical

\* C5: the classification is OK up to OK_LEVEL, else Warning up to
\* WARNING_LEVEL, else Critical; 50 is OK, 85 is Critical, and every usage
\* line carries the classification of used / size * 100, so that 75 of 100
\* is marked Critical.  (What is said of the function alone does not depend
\* on the state and is evaluated where the run starts.)
C5_Classification ==
    /\ pc = "hostinfo" =>
        /\ \A p \in 0..MaxPct :
            check_emoji(WholePercent(p)) = Tier(WholePercent(p))
        /\ check_emoji(WholePercent(50)) = OK
        /\ check_emoji(WholePercent(85)) = Critical
    /\ \A i \in Indices(report, "usage") :
        /\ report[i].percent = [n |-> report[i].used * 100, d |-> report[i].size]
        /\ report[i].emoji = Tier(report[i].percent)
        /\ (report[i].used = 75 /\ report[i].size = 100 =>
                report[i].emoji = Critical)

C5_Witness ==
    \E i \in Indices(report, "usage") :
        report[i].used = 75 /\ report[i].size = 100 /\ report[i].emoji = Critical

\* C6: the used bytes of a device are the sum, over the listed entries other
\* than the device itself that are mounted and whose df answer has an integer
\* on its second line, of that integer; 0 if nothing is mounted.
ListedParts == IF arg[1].parts.raised THEN <<>> ELSE arg[1].parts.stdout
MountLines(p) == arg[1].mp[p].stdout
DfLines(p) == LET o == arg[1].df[MountLines(p)[1]]
              IN  IF o.raised THEN <<>> ELSE o.stdout
Counted(l) ==
    {i \in 1..Len(l) :
        /\ l[i] # Dev
        /\ MountLines(l[i]) # <<>>
        /\ Len(DfLines(l[i])) >= 2
        /\ int(DfLines(l[i])[2]).ok}
RECURSIVE SumOver(_, _)
SumOver(I, l) ==
    IF I = {} THEN 0
    ELSE LET i == CHOOSE j \in I : TRUE
         IN  int(DfLines(l[i])[2]).val + SumOver(I \ {i}, l)

C6_UsedBytesSum ==
    pc = "returned_used" =>
        /\ ret = Some(SumOver(Counted(ListedParts), ListedParts))
        /\ ((\A i \in 1..Len(ListedParts) :
                ListedParts[i] = Dev \/ MountLines(ListedParts[i]) = <<>>)
            => ret = Some(0))

C6_Witness ==
    /\ pc = "returned_used"
    /\ Len(ListedParts) = 3
    /\ ListedParts[1] = Dev
    /\ 2 \notin Counted(ListedParts) /\ MountLines(ListedParts[2]) # <<>>
    /\ 3 \in Counted(ListedParts)
    /\ ret = Some(65)

\* C7: the capacity is the direct query's answer when that is a decimal
\* numeral, else 512 times the sector count of the system file, and None
\* exactly when the answer is no numeral and the file cannot be read or
\* parsed.
DirectAnswer == IF arg[1].size.raised THEN <<>> ELSE strip(arg[1].size.stdout)
IsNumeral(t) == Len(t) > 0 /\ {t[i] : i \in 1..Len(t)} \subseteq DigitSet
SectorCount == IF arg[1].sys.readable THEN int(arg[1].sys.text)
               ELSE [ok |-> FALSE, val |-> 0]

C7_Capacity ==
    pc = "returned_size" =>
        /\ IsNumeral(DirectAnswer) => ret[1] = Some(DigitsValue(DirectAnswer))
        /\ ~IsNumeral(DirectAnswer) /\ SectorCount.ok =>
                ret[1] = Some(SectorCount.val * 512)
        /\ ret[1] = None <=> (~IsNumeral(DirectAnswer) /\ ~SectorCount.ok)

C7_Witness ==
    /\ pc = "returned_size"
    /\ ~IsNumeral(DirectAnswer)
    /\ SectorCount.ok
    /\ ret[1] = Some(512)

\* C8: once the Directory Sizer has been called, the directory section has
\* one line per configured path, in order: "Not found" for a path that is no
\* directory, "Error getting size" for a directory du printed nothing for
\* (du missing included), else the first field of du's output.
ExpectedDirLine(d) ==
    LET env == dirObs[1]
    IN  IF ~env.isdir[d] THEN DirLine(d, "Not found")
        ELSE IF env.du[d].raised \/ env.du[d].stdout = <<>>
             THEN DirLine(d, "Error getting size")
             ELSE DirLine(d, env.du[d].stdout[1])

C8_DirectoryLines ==
    dirObs # None =>
        LET section == SelectSeq(report, LAMBDA l : l.kind = "dir")
        IN  /\ Len(section) = Len(DIRS_TO_CHECK)
            /\ \A i \in 1..Len(section) :
                section[i] = ExpectedDirLine(DIRS_TO_CHECK[i])

\* C9: no percentage is classified Warning, 65 is OK, and neither the header
\* nor a device line carries the Warning marker.  (What is said of the
\* function alone is evaluated where the run starts.)
C9_WarningUnreachable ==
    /\ pc = "hostinfo" =>
        /\ \A p \in 0..MaxPct : check_emoji(WholePercent(p)) \in {OK, Critical}
        /\ check_emoji(WholePercent(65)) = OK
    /\ \A i \in Indices(report, "header") \cup Indices(report, "usage") :
        report[i].emoji # Warning

C9_Witness ==
    \E i \in Indices(report, "usage") :
        /\ report[i].percent.n > WARNING_LEVEL * report[i].percent.d
        /\ report[i].percent.n < OK_LEVEL * report[i].percent.d
        /\ report[i].emoji = OK

\* C10: the header's marker is at least as severe as the marker of every
\* device line, and is the most severe of them once the disk section is
\* complete and has a device line with a marker.
C10_HeaderDominates ==
    /\ \A i \in Indices(report, "usage") :
        Severity(report[1].emoji) >= Severity(report[i].emoji)
    /\ (pc \in {"gate", "send", "done"} /\ Indices(report, "usage") # {} =>
            \E i \in Indices(report, "usage") :
                report[1].emoji = report[i].emoji)

=============================================================================
